---- MODULE Spec2Model ----
(***************************************************************************)
(* A model of pdf2pptx.py: one run of main(), from argument parsing to     *)
(* process exit.  The run is split into steps at its calls to the          *)
(* operating system, the external rasterizer (ImageMagick convert) and the *)
(* python-pptx library; the outcome of each such call is chosen            *)
(* nondeterministically among those the call can have.                     *)
(*                                                                         *)
(* Lengths are fixed-point numbers in ten-thousandths of an inch:          *)
(* 13.3333 is 133333 and 7.5 is 75000.  A slide-size token is a sequence   *)
(* of one-character strings.                                               *)
(***************************************************************************)
EXTENDS Integers, Sequences, FiniteSets, TLC

VARIABLES
    args,        \* the parsed command line: retain_image_files, image_format, slide_size
    pdf_isfile,  \* os.path.isfile(pdf_file)
    start,       \* the file system as the run found it: temp, temp_files, out
    temp,        \* what is at the temp_dir path: "absent", "file", "dir" or "dangling_link"
    temp_files,  \* the files in temp_dir, each <<index, extension>> for page-<index>.<extension>
    out,         \* the file at the pptx_file path
    pc,          \* the position of main()
    exit_code,   \* the exit status of the process, once pc = "exited"
    err,         \* what the run reported as it ended: "" when it returned normally
    log,         \* the calls made so far that touch the file system or start a process
    slide_dims,  \* <<slide_width_in, slide_height_in>>, <<>> before it is parsed
    prs,         \* the Presentation being built: made, dims, slides
    index,       \* the loop's index
    slide_count, \* the loop's slide_count
    warned       \* whether the cleanup logged its warning

vars == <<args, pdf_isfile, start, temp, temp_files, out, pc, exit_code, err, log,
          slide_dims, prs, index, slide_count, warned>>

(***************************************************************************)
(* Bounds                                                                  *)
(***************************************************************************)
\* The rasterizer writes page images with indices below MaxPages.
MaxPages == 3
\* The longest generated slide-size token.
MaxTokLen == 3

(***************************************************************************)
(* Slide-size tokens                                                       *)
(***************************************************************************)
Digits == {"0", "1", "2", "3", "4", "5", "6", "7", "8", "9"}

\* The characters the generated tokens are made of.
TokenChars == {"0", "1", ".", "-", "x"}

Tok_16_9 == <<"1", "6", ":", "9">>
Tok_16x9 == <<"1", "6", "x", "9">>
Tok_4_3 == <<"4", ":", "3">>
Tok_4x3 == <<"4", "x", "3">>
Tok_12_5x8 == <<"1", "2", ".", "5", "x", "8">>
Tok_abcxdef == <<"a", "b", "c", "x", "d", "e", "f">>
Tok_0x5 == <<"0", "x", "5">>
Tok_neg == <<"-", "1", "x", "2">>
Tok_one_part == <<"1", "0">>

\* The --slide-size values the runs are given.
SlideSizeArgs ==
    {Tok_16_9, Tok_16x9, Tok_4_3, Tok_4x3, Tok_12_5x8, Tok_abcxdef, Tok_0x5, Tok_neg,
     Tok_one_part}

\* The tokens parse_slide_size is applied to on its own.
AllTokens == SlideSizeArgs \cup UNION {[1..n -> TokenChars] : n \in 0..MaxTokLen}

(***************************************************************************)
(* parse_slide_size                                                        *)
(***************************************************************************)
\* One ten-thousandth of an inch is the unit of length.
Scale == 100 * 100

DigitVal(c) ==
    CASE c = "0" -> 0 [] c = "1" -> 1 [] c = "2" -> 2 [] c = "3" -> 3 [] c = "4" -> 4
      [] c = "5" -> 5 [] c = "6" -> 6 [] c = "7" -> 7 [] c = "8" -> 8 [] c = "9" -> 9

\* size_str.split('x'): the parts between the occurrences of "x"; a string
\* without "x" is one part, and a part may be empty.
RECURSIVE Split(_)
Split(s) ==
    IF \A i \in 1..Len(s) : s[i] # "x"
    THEN <<s>>
    ELSE LET i == CHOOSE k \in 1..Len(s) :
                      s[k] = "x" /\ \A j \in 1..(k - 1) : s[j] # "x"
         IN <<SubSeq(s, 1, i - 1)>> \o Split(SubSeq(s, i + 1, Len(s)))

\* A float literal without its sign.
Unsigned(p) == IF Len(p) > 0 /\ p[1] \in {"-", "+"} THEN Tail(p) ELSE p

DotPositions(u) == {i \in 1..Len(u) : u[i] = "."}

\* Whether float(p) returns: an optional sign, then digits with at most one
\* point and at least one digit.  (float also takes an exponent, "inf",
\* "nan", underscores between digits and surrounding blanks; no token of
\* AllTokens has one of these forms.)
FloatOK(p) ==
    LET u == Unsigned(p)
        dots == DotPositions(u)
    IN /\ Cardinality(dots) <= 1
       /\ \A i \in (1..Len(u)) \ dots : u[i] \in Digits
       /\ Len(u) - Cardinality(dots) >= 1

RECURSIVE DigitsValue(_)
DigitsValue(d) ==
    IF d = <<>> THEN 0 ELSE 10 * DigitsValue(SubSeq(d, 1, Len(d) - 1)) + DigitVal(d[Len(d)])

\* The fraction's digits in ten-thousandths: the first four digits count.
FractionValue(f) ==
    LET digit(i) == IF i <= Len(f) THEN DigitVal(f[i]) ELSE 0
    IN 1000 * digit(1) + 100 * digit(2) + 10 * digit(3) + digit(4)

\* float(p), for a p that FloatOK accepts.
FloatValue(p) ==
    LET u == Unsigned(p)
        dots == DotPositions(u)
        d == IF dots = {} THEN Len(u) + 1 ELSE CHOOSE i \in dots : TRUE
        magnitude == Scale * DigitsValue(SubSeq(u, 1, d - 1))
                       + FractionValue(SubSeq(u, d + 1, Len(u)))
    IN IF Len(p) > 0 /\ p[1] = "-" THEN 0 - magnitude ELSE magnitude

Size16x9 == <<133333, 75000>>
Size4x3 == <<100000, 75000>>

\* parse_slide_size(size_str): ok with the size it returns, or not ok when it
\* calls error_and_exit.
parse_slide_size(size_str) ==
    IF size_str \in {Tok_16_9, Tok_16x9}
    THEN [ok |-> TRUE, dims |-> Size16x9]
    ELSE IF size_str \in {Tok_4_3, Tok_4x3}
    THEN [ok |-> TRUE, dims |-> Size4x3]
    ELSE LET parts == Split(size_str)
         IN IF Len(parts) = 2 /\ FloatOK(parts[1]) /\ FloatOK(parts[2])
            THEN [ok |-> TRUE, dims |-> <<FloatValue(parts[1]), FloatValue(parts[2])>>]
            ELSE [ok |-> FALSE, dims |-> <<>>]

(***************************************************************************)
(* Process exit                                                            *)
(***************************************************************************)
\* error_and_exit(message): logs the message and exits with status 1.
error_and_exit(message) ==
    /\ pc' = "exited"
    /\ exit_code' = 1
    /\ err' = message

\* An exception no handler of main() catches: the interpreter prints the
\* traceback and exits with status 1.
UncaughtException ==
    /\ pc' = "exited"
    /\ exit_code' = 1
    /\ err' = "traceback"

\* A call recorded in the log.
Call(op, res, files) == [op |-> op, res |-> res, files |-> files]

(***************************************************************************)
(* The file system and the external tools                                  *)
(***************************************************************************)
\* extension, from --image-format.
Extension == IF args.image_format = "JPEG" THEN "jpg" ELSE "png"

\* The files page-<i>.<extension> the rasterizer can write.
PageNames == {<<i, Extension>> : i \in 0..(MaxPages - 1)}

\* os.path.exists(temp_dir): a symbolic link is followed, so a link whose
\* target is missing does not exist.
TempDirExists == temp \in {"file", "dir"}

\* os.mkdir(temp_dir): fails on a path that is taken, a dangling link
\* included, and may fail for any other reason of the operating system.
MkdirOutcomes == IF temp # "absent" THEN {"oserror"} ELSE {"ok", "oserror"}

\* shutil.rmtree(temp_dir) on a directory holding files: the directory is
\* gone, or the deletion failed part way and the directory is left with some
\* of its files.
RmtreeOutcomes(files) ==
    {[failed |-> FALSE, temp |-> "absent", files |-> {}]}
      \cup {[failed |-> TRUE, temp |-> "dir", files |-> kept] : kept \in SUBSET files}

\* A cleanup on failure that reads the flag the wrong way round.
CleanupOnFailureInverted == temp = "dir" /\ args.retain_image_files

\* os.path.isdir(temp_dir) and not args.retain_image_files
CleanupOnFailure == temp = "dir" /\ ~args.retain_image_files

\* A cleanup on success that does not read the flag.
CleanupOnSuccessAlways == TRUE

\* not args.retain_image_files
CleanupOnSuccess == ~args.retain_image_files

\* os.path.isfile(page-<i>.<extension>)
PageIsFile(i) == temp = "dir" /\ <<i, Extension>> \in temp_files

\* A loop that takes the pages to be numbered from 1.
InitialIndexOne == 0 + 1

\* index = 0
InitialIndex == 0

(***************************************************************************)
(* The run                                                                 *)
(***************************************************************************)
NoFile == [state |-> "absent", dims |-> <<>>, slides |-> <<>>]
OldFile == [state |-> "old", dims |-> <<>>, slides |-> <<>>]
PartialFile == [state |-> "partial", dims |-> <<>>, slides |-> <<>>]

NoPresentation == [made |-> FALSE, dims |-> <<>>, slides |-> <<>>]

\* What the run can find at the temp_dir path.
TempAtStart ==
    {[temp |-> "absent", files |-> {}], [temp |-> "file", files |-> {}],
     [temp |-> "dir", files |-> {}], [temp |-> "dir", files |-> {<<0, "jpg">>}],
     [temp |-> "dangling_link", files |-> {}]}

\* The state main() starts in, after parser.parse_args().
Init ==
    /\ args \in [retain_image_files : BOOLEAN, image_format : {"JPEG", "PNG"},
                 slide_size : SlideSizeArgs]
    /\ pdf_isfile \in BOOLEAN
    /\ \E t \in TempAtStart : temp = t.temp /\ temp_files = t.files
    /\ out \in {NoFile, OldFile}
    /\ start = [temp |-> temp, temp_files |-> temp_files, out |-> out]
    /\ pc = "validate"
    /\ exit_code = 0
    /\ err = ""
    /\ log = <<>>
    /\ slide_dims = <<>>
    /\ prs = NoPresentation
    /\ index = 0
    /\ slide_count = 0
    /\ warned = FALSE

\* A run that does not look for the input PDF.
ValidateSkipped ==
    /\ pc = "validate"
    /\ pc' = "check_temp_dir"
    /\ UNCHANGED <<args, pdf_isfile, start, temp, temp_files, out, exit_code, err, log,
                   slide_dims, prs, index, slide_count, warned>>

\* 1) Validate the input PDF path.
Validate ==
    /\ pc = "validate"
    /\ IF ~pdf_isfile
       THEN error_and_exit("pdf_missing")
       ELSE pc' = "check_temp_dir" /\ UNCHANGED <<exit_code, err>>
    /\ UNCHANGED <<args, pdf_isfile, start, temp, temp_files, out, log, slide_dims, prs,
                   index, slide_count, warned>>

\* A run that takes a temp_dir path that exists as its directory
\* (if not os.path.exists(temp_dir): os.mkdir(temp_dir)).
CheckTempDirReuse ==
    /\ pc = "check_temp_dir"
    /\ pc' = IF TempDirExists THEN "convert" ELSE "mkdir"
    /\ UNCHANGED <<args, pdf_isfile, start, temp, temp_files, out, exit_code, err, log,
                   slide_dims, prs, index, slide_count, warned>>

\* 2) Determine the temporary directory, which must not exist.
CheckTempDir ==
    /\ pc = "check_temp_dir"
    /\ IF TempDirExists
       THEN error_and_exit("temp_exists")
       ELSE pc' = "mkdir" /\ UNCHANGED <<exit_code, err>>
    /\ UNCHANGED <<args, pdf_isfile, start, temp, temp_files, out, log, slide_dims, prs,
                   index, slide_count, warned>>

\* Attempt to create the temp directory.
MakeTempDir ==
    /\ pc = "mkdir"
    /\ \E res \in MkdirOutcomes :
          /\ log' = Append(log, Call("mkdir", res, {}))
          /\ IF res = "ok"
             THEN /\ temp' = "dir"
                  /\ temp_files' = {}
                  /\ pc' = "convert"
                  /\ UNCHANGED <<exit_code, err>>
             ELSE /\ error_and_exit("mkdir_failed")
                  /\ UNCHANGED <<temp, temp_files>>
    /\ UNCHANGED <<args, pdf_isfile, start, out, slide_dims, prs, index, slide_count,
                   warned>>

\* 3) subprocess.run(convert_cmd, check=True) returns: the rasterizer wrote
\* some page images and exited with status 0.
ConvertOk ==
    /\ pc = "convert"
    /\ \E written \in SUBSET PageNames :
          /\ temp_files' = temp_files \cup written
          /\ log' = Append(log, Call("convert", "ok", written))
    /\ pc' = "parse_slide_size"
    /\ UNCHANGED <<args, pdf_isfile, start, temp, out, exit_code, err, slide_dims, prs,
                   index, slide_count, warned>>

\* A handler of the rasterizer's failure that cleans up and does not exit.
ConvertFailedFallThrough ==
    /\ pc = "convert"
    /\ \E written \in SUBSET PageNames :
          LET files == temp_files \cup written
              call == Call("convert", "nonzero", written)
          IN IF CleanupOnFailure
             THEN \E r \in RmtreeOutcomes(files) :
                     /\ temp' = r.temp
                     /\ temp_files' = r.files
                     /\ log' = log \o <<call, Call("rmtree", IF r.failed THEN "ignored"
                                                                         ELSE "ok", {})>>
             ELSE /\ temp_files' = files
                  /\ log' = Append(log, call)
                  /\ UNCHANGED temp
    /\ pc' = "parse_slide_size"
    /\ UNCHANGED <<args, pdf_isfile, start, out, exit_code, err, slide_dims, prs, index,
                   slide_count, warned>>

\* The rasterizer exited with a non-zero status (CalledProcessError), having
\* written some page images or none: the temp directory is removed, errors
\* ignored, unless the images are retained, and the run ends.
ConvertFailed ==
    /\ pc = "convert"
    /\ \E written \in SUBSET PageNames :
          LET files == temp_files \cup written
              call == Call("convert", "nonzero", written)
          IN IF CleanupOnFailure
             THEN \E r \in RmtreeOutcomes(files) :
                     /\ temp' = r.temp
                     /\ temp_files' = r.files
                     /\ log' = log \o <<call, Call("rmtree", IF r.failed THEN "ignored"
                                                                         ELSE "ok", {})>>
             ELSE /\ temp_files' = files
                  /\ log' = Append(log, call)
                  /\ UNCHANGED temp
    /\ error_and_exit("convert_failed")
    /\ UNCHANGED <<args, pdf_isfile, start, out, slide_dims, prs, index, slide_count,
                   warned>>

\* The rasterizer could not be started (no convert on the PATH): the OSError
\* of subprocess.run is not a CalledProcessError and nothing catches it.
ConvertNotStarted ==
    /\ pc = "convert"
    /\ log' = Append(log, Call("convert", "oserror", {}))
    /\ UncaughtException
    /\ UNCHANGED <<args, pdf_isfile, start, temp, temp_files, out, slide_dims, prs, index,
                   slide_count, warned>>

RunConvert == ConvertOk \/ ConvertFailed \/ ConvertNotStarted

\* 4) Parse the slide size.
ParseSlideSize ==
    /\ pc = "parse_slide_size"
    /\ LET r == parse_slide_size(args.slide_size)
       IN IF r.ok
          THEN /\ slide_dims' = r.dims
               /\ pc' = "create_presentation"
               /\ UNCHANGED <<exit_code, err>>
          ELSE /\ error_and_exit("slide_size")
               /\ UNCHANGED slide_dims
    /\ UNCHANGED <<args, pdf_isfile, start, temp, temp_files, out, log, prs, index,
                   slide_count, warned>>

\* 5) Create the presentation and set its slide size; the library may
\* refuse the size.  Then index = 0 and slide_count = 0.
CreatePresentation ==
    /\ pc = "create_presentation"
    /\ \/ /\ prs' = [made |-> TRUE, dims |-> slide_dims, slides |-> <<>>]
          /\ index' = InitialIndex
          /\ slide_count' = 0
          /\ pc' = "add_slides"
          /\ UNCHANGED <<exit_code, err>>
       \/ /\ UncaughtException
          /\ UNCHANGED <<prs, index, slide_count>>
    /\ UNCHANGED <<args, pdf_isfile, start, temp, temp_files, out, log, slide_dims, warned>>

\* 6) One turn of the loop: the slide of page-<index>, or the end of the
\* loop at the first index without a file; add_picture may raise.
AddSlide ==
    /\ pc = "add_slides"
    /\ IF PageIsFile(index)
       THEN \/ /\ prs' = [prs EXCEPT !.slides = Append(@, <<index, Extension>>)]
               /\ index' = index + 1
               /\ slide_count' = slide_count + 1
               /\ UNCHANGED <<pc, exit_code, err>>
            \/ /\ UncaughtException
               /\ UNCHANGED <<prs, index, slide_count>>
       ELSE /\ pc' = "save"
            /\ UNCHANGED <<prs, index, slide_count, exit_code, err>>
    /\ UNCHANGED <<args, pdf_isfile, start, temp, temp_files, out, log, slide_dims, warned>>

\* 7) prs.save(pptx_file): the file is written, or the save raises and the
\* file is as it was or partly written.
SavePptx ==
    /\ pc = "save"
    /\ \/ /\ out' = [state |-> "saved", dims |-> prs.dims, slides |-> prs.slides]
          /\ log' = Append(log, Call("save", "ok", {}))
          /\ pc' = "cleanup"
          /\ UNCHANGED <<exit_code, err>>
       \/ /\ out' \in {out, PartialFile}
          /\ log' = Append(log, Call("save", "error", {}))
          /\ UncaughtException
    /\ UNCHANGED <<args, pdf_isfile, start, temp, temp_files, slide_dims, prs, index,
                   slide_count, warned>>

\* A cleanup that does not catch the OSError of rmtree.
CleanupUncaught ==
    /\ pc = "cleanup"
    /\ IF CleanupOnSuccess
       THEN \E r \in RmtreeOutcomes(temp_files) :
               /\ temp' = r.temp
               /\ temp_files' = r.files
               /\ log' = Append(log, Call("rmtree", IF r.failed THEN "error" ELSE "ok", {}))
               /\ exit_code' = IF r.failed THEN 1 ELSE 0
               /\ err' = IF r.failed THEN "traceback" ELSE err
       ELSE /\ exit_code' = 0
            /\ UNCHANGED <<temp, temp_files, log, err>>
    /\ pc' = "exited"
    /\ UNCHANGED <<args, pdf_isfile, start, out, slide_dims, prs, index, slide_count,
                   warned>>

\* 8) Cleanup, then main() returns and the process exits with status 0.
Cleanup ==
    /\ pc = "cleanup"
    /\ IF CleanupOnSuccess
       THEN \E r \in RmtreeOutcomes(temp_files) :
               /\ temp' = r.temp
               /\ temp_files' = r.files
               /\ warned' = r.failed
               /\ log' = Append(log, Call("rmtree", IF r.failed THEN "warning" ELSE "ok",
                                          {}))
       ELSE UNCHANGED <<temp, temp_files, warned, log>>
    /\ pc' = "exited"
    /\ exit_code' = 0
    /\ UNCHANGED <<args, pdf_isfile, start, out, err, slide_dims, prs, index, slide_count>>

Next ==
    \/ Validate
    \/ CheckTempDir
    \/ MakeTempDir
    \/ RunConvert
    \/ ParseSlideSize
    \/ CreatePresentation
    \/ AddSlide
    \/ SavePptx
    \/ Cleanup

Spec == Init /\ [][Next]_vars

(***************************************************************************)
(* parse_slide_size on its own: the run has made its directory and the     *)
(* rasterizer has exited with status 0 without a page image; the token is  *)
(* any of AllTokens.                                                       *)
(***************************************************************************)
ParseInit ==
    /\ args \in [retain_image_files : {FALSE}, image_format : {"JPEG"},
                 slide_size : AllTokens]
    /\ pdf_isfile = TRUE
    /\ temp = "dir"
    /\ temp_files = {}
    /\ out = NoFile
    /\ start = [temp |-> "absent", temp_files |-> {}, out |-> NoFile]
    /\ pc = "parse_slide_size"
    /\ exit_code = 0
    /\ err = ""
    /\ log = <<Call("mkdir", "ok", {}), Call("convert", "ok", {})>>
    /\ slide_dims = <<>>
    /\ prs = NoPresentation
    /\ index = 0
    /\ slide_count = 0
    /\ warned = FALSE

ParseSpec == ParseInit /\ [][ParseSlideSize]_vars

(***************************************************************************)
(* Properties                                                              *)
(***************************************************************************)
Exited == pc = "exited"

Attempted(op) == \E i \in 1..Len(log) : log[i].op = op

Ran(op, res) == \E i \in 1..Len(log) : log[i].op = op /\ log[i].res = res

\* The page images the rasterizer wrote into the fresh directory.
Written == UNION {log[i].files : i \in {j \in 1..Len(log) : log[j].op = "convert"}}

\* Nothing at the temp_dir path or the pptx_file path has changed.
FileSystemUntouched ==
    /\ temp = start.temp
    /\ temp_files = start.temp_files
    /\ out = start.out

\* The smallest index without a page image among files.
FirstGap(files) ==
    CHOOSE n \in 0..MaxPages :
        /\ \A k \in 0..(n - 1) : <<k, Extension>> \in files
        /\ <<n, Extension>> \notin files

\* C1 as stated: whenever the rasterizer exited with a non-zero status and
\* the images are not retained, the run ends with exit status 1, the temp
\* directory does not exist at the end, and the output file is as it was.
C1_Original ==
    (Exited /\ Ran("convert", "nonzero") /\ ~args.retain_image_files)
        => /\ exit_code = 1
           /\ temp = "absent"
           /\ out = start.out
           /\ ~Attempted("save")

\* C1 as amended: whenever the rasterizer exited with a non-zero status and
\* the images are not retained, the run ends with exit status 1, it has
\* attempted one deletion of the temp directory, which is gone unless that
\* deletion failed (the failure is ignored), and the output file is as it
\* was, no save having been attempted.
C1_FailedConvertCleansUp ==
    (Exited /\ Ran("convert", "nonzero") /\ ~args.retain_image_files)
        => /\ exit_code = 1
           /\ Attempted("rmtree")
           /\ temp = "absent" \/ Ran("rmtree", "ignored")
           /\ Ran("rmtree", "ok") => temp = "absent"
           /\ out = start.out
           /\ ~Attempted("save")

C1_Witness ==
    /\ Exited
    /\ Ran("convert", "nonzero")
    /\ ~args.retain_image_files
    /\ Written # {}
    /\ temp = "absent"

\* C2: with --retain-image-files, once the run has created its temp
\* directory, the directory exists and holds every page image the rasterizer
\* wrote, in every state up to and including the exit, and no deletion is
\* attempted.
C2_RetainKeepsWorkspace ==
    (args.retain_image_files /\ Ran("mkdir", "ok"))
        => /\ temp = "dir"
           /\ Written \subseteq temp_files
           /\ ~Attempted("rmtree")

C2_Witness ==
    /\ Exited
    /\ args.retain_image_files
    /\ Ran("save", "ok")
    /\ exit_code = 0
    /\ temp = "dir"
    /\ Cardinality(temp_files) >= 2

\* C3: a saved presentation has exactly n slides, n the smallest index
\* without a page image after the rasterization, slide k made of page-<k>
\* in increasing order, whatever images lie above the gap; with n = 0 it is
\* saved all the same, and a run that saved ends with exit status 0.
C3_SlidesUpToFirstGap ==
    Ran("save", "ok")
        => LET n == FirstGap(Written)
           IN /\ out.state = "saved"
              /\ Len(out.slides) = n
              /\ \A k \in 0..(n - 1) : out.slides[k + 1] = <<k, Extension>>
              /\ Exited => exit_code = 0

C3_Witness ==
    /\ Exited
    /\ Ran("save", "ok")
    /\ Written = {<<0, Extension>>, <<2, Extension>>}
    /\ Len(out.slides) = 1

\* C4: when the temp_dir path exists at the start, as a file or as a
\* directory, the run makes no call that touches the file system or starts
\* the rasterizer, the path, its contents and the output file stay as they
\* were, and the run ends with exit status 1.
C4_ExistingTempDirFails ==
    start.temp \in {"file", "dir"}
        => /\ log = <<>>
           /\ FileSystemUntouched
           /\ Exited => exit_code = 1

C4_Witness ==
    /\ Exited
    /\ pdf_isfile
    /\ start.temp = "dir"
    /\ start.temp_files # {}
    /\ err = "temp_exists"

\* C5: a malformed --slide-size makes the run end with exit status 1 and
\* without side effects: no temp directory is created or left behind, the
\* rasterizer is not started and no output file is written.
C5_Claim ==
    ~parse_slide_size(args.slide_size).ok
        => /\ ~Attempted("mkdir")
           /\ ~Attempted("convert")
           /\ FileSystemUntouched
           /\ Exited => exit_code = 1

\* C6: when building or saving the presentation fails after the rasterizer
\* exited with status 0, the run ends with exit status 1 and has attempted a
\* deletion of the temp directory unless the images are retained, in which
\* case the directory is kept.
C6_Claim ==
    (Exited /\ Ran("convert", "ok") /\ err = "traceback")
        => /\ exit_code = 1
           /\ ~args.retain_image_files => Attempted("rmtree")
           /\ args.retain_image_files => temp = "dir"

\* C7: once the presentation is saved, the output file stays the saved
\* presentation and the run ends with exit status 0 and no error, whether
\* the deletion of the temp directory succeeds or fails with a warning.
C7_SavedRunExitsZero ==
    Ran("save", "ok")
        => /\ out = [state |-> "saved", dims |-> prs.dims, slides |-> prs.slides]
           /\ Exited => (exit_code = 0 /\ err = "")

C7_Witness ==
    /\ Exited
    /\ Ran("save", "ok")
    /\ Ran("rmtree", "warning")
    /\ warned
    /\ temp = "dir"
    /\ exit_code = 0

\* C8: when the input PDF is not a regular file, the run goes from the
\* validation straight to its exit with status 1: no directory is created,
\* the rasterizer is not started and no output file is written, whatever the
\* other flags.
C8_MissingPdfFails ==
    ~pdf_isfile
        => /\ pc \in {"validate", "exited"}
           /\ log = <<>>
           /\ FileSystemUntouched
           /\ Exited => (exit_code = 1 /\ err = "pdf_missing")

C8_Witness ==
    /\ Exited
    /\ ~pdf_isfile
    /\ start.temp = "absent"
    /\ args.retain_image_files
    /\ exit_code = 1

\* What C9 says parse_slide_size accepts besides the four named tokens:
\* <width>x<height>, both parts valid positive decimal numbers.
C9_Accepts(t) ==
    LET parts == Split(t)
    IN /\ Len(parts) = 2
       /\ \A i \in {1, 2} : FloatOK(parts[i]) /\ FloatValue(parts[i]) > 0

\* C9: parse_slide_size maps 16:9 and 16x9 to (13.3333, 7.5), 4:3 and 4x3
\* to (10.0, 7.5), returns (width, height) for any other token of the form
\* <width>x<height> with both parts valid positive decimal numbers, and
\* fails with an error and exit status 1 on every other token.
C9_Claim ==
    pc # "parse_slide_size"
        => LET t == args.slide_size
           IN IF t \in {Tok_16_9, Tok_16x9} THEN slide_dims = Size16x9
              ELSE IF t \in {Tok_4_3, Tok_4x3} THEN slide_dims = Size4x3
              ELSE IF C9_Accepts(t)
              THEN slide_dims = <<FloatValue(Split(t)[1]), FloatValue(Split(t)[2])>>
              ELSE Exited /\ exit_code = 1 /\ err = "slide_size" /\ slide_dims = <<>>

\* C10: each of mkdir, convert, save and rmtree is called at most once; the
\* rasterizer is started only after the temp directory was created, the
\* presentation is saved only after the rasterizer exited with status 0,
\* and after such an exit the directory is deleted only once the
\* presentation is saved; a run that ends with status 0, does not retain
\* the images and whose deletion did not fail leaves no temp directory.
C10_StepsInOrder ==
    /\ \A i, j \in 1..Len(log) : i < j => log[i].op # log[j].op
    /\ \A i \in 1..Len(log) :
          /\ log[i].op = "convert"
                => \E j \in 1..(i - 1) : log[j] = Call("mkdir", "ok", {})
          /\ log[i].op = "save"
                => \E j \in 1..(i - 1) : log[j].op = "convert" /\ log[j].res = "ok"
          /\ (log[i].op = "rmtree" /\ ~Ran("convert", "nonzero"))
                => \E j \in 1..(i - 1) : log[j] = Call("save", "ok", {})
    /\ (Exited /\ exit_code = 0 /\ ~args.retain_image_files /\ ~warned)
          => temp = "absent"

C10_Witness ==
    /\ Exited
    /\ exit_code = 0
    /\ ~args.retain_image_files
    /\ ~warned
    /\ temp = "absent"
    /\ Len(out.slides) = MaxPages
    /\ Len(log) = 4

====
